---- MODULE Spec2Model ----
(***************************************************************************)
(* Model of posdata.py: PrinterMotionData (the CSV recorder and the        *)
(* session state), PrinterStatus (the Moonraker listener: notification     *)
(* dispatch, catalogue, subscription) and main() (the session controller). *)
(*                                                                         *)
(* Two asyncio tasks share the state: main() and the client's receive      *)
(* task, which calls on_notification once per message.  on_notification    *)
(* contains no await, so one call is one atomic step; main() is cut at     *)
(* its awaits.                                                             *)
(*                                                                         *)
(* Environment assumptions (the moonraker_api client and the remote are    *)
(* not part of posdata.py):                                                *)
(*  - notify_status_update is delivered only once a non-empty              *)
(*    printer.objects.subscribe has been sent, and may still arrive after  *)
(*    the cancellation until the client is disconnected;                   *)
(*  - the remote timestamps of successive status updates strictly          *)
(*    increase;                                                            *)
(*  - notifications with other methods arrive whenever the client is       *)
(*    connected;                                                           *)
(*  - when on_notification raises, the client either keeps receiving or    *)
(*    stops receiving (both outcomes are kept); main() is not told;        *)
(*  - asyncio_timeout's expiry is caught by `except TimeoutError`;         *)
(*  - connect and call_method succeed; no SIGINT is sent.                  *)
(***************************************************************************)
EXTENDS Integers, Sequences, FiniteSets, TLC

(* ---------------------------- bounds ---------------------------------- *)
\* remote timestamps are 1..MaxTs; they strictly increase, so MaxTs also
\* bounds the number of status updates of a run
MaxTs == 2

(* ------------------------- Python values ------------------------------ *)
\* Python None, and a present value v, as <<>> and <<v>>
None == <<>>
Some(v) == <<v>>

\* the empty dict
EmptyDict == [k \in {} |-> k]

\* dict.get(key, None)
Get(data, key) == IF key \in DOMAIN data THEN Some(data[key]) ELSE None

(* ------------------------- input domains ------------------------------ *)
Timestamps == 1..MaxTs
\* total_duration values: below, equal to and above a timestamp
Durations == {1, 2}
Filenames == {"", "a.gcode"}
PrintStates == {"printing"}
Positions == {<<1, 2, 3, 4>>}
Velocities == {5}

StatusMethod == "notify_status_update"
OtherMethods == {"notify_proc_stat_update", "notify_klippy_shutdown"}
OtherPayloads == {<<>>, <<"x">>}

\* the per-class payloads of a status update
PrintStatsData ==
    {s @@ f @@ d :
        s \in {EmptyDict} \cup {("state" :> v) : v \in PrintStates},
        f \in {EmptyDict} \cup {("filename" :> v) : v \in Filenames},
        d \in {EmptyDict} \cup {("total_duration" :> v) : v \in Durations}}

MotionReportData ==
    {p @@ v :
        p \in {EmptyDict} \cup {("live_position" :> x) : x \in Positions},
        v \in {EmptyDict} \cup {("live_velocity" :> x) : x \in Velocities}}

ClassNames == {"motion_report", "print_stats", "toolhead"}

PayloadsOf(k) ==
    CASE k = "motion_report" -> MotionReportData
      [] k = "print_stats" -> PrintStatsData
      [] OTHER -> {EmptyDict}

\* a status-update message is a dict: its keys are distinct and it is
\* iterated in insertion order; modelled as a sequence of <<class, fields>>
\* pairs; the messages drawn carry one class or two
KeyOrders ==
    {<<a>> : a \in ClassNames}
        \cup {ks \in ClassNames \X ClassNames : ks[1] # ks[2]}

Message(ks, m, p) ==
    [i \in DOMAIN ks |->
        <<ks[i], CASE ks[i] = "motion_report" -> m
                   [] ks[i] = "print_stats" -> p
                   [] OTHER -> EmptyDict>>]

Messages ==
    {Message(ks, m, p) : ks \in KeyOrders, m \in MotionReportData, p \in PrintStatsData}

(* ----------------------- csv.DictWriter ------------------------------- *)
\* the header row written by writeheader(): every column holds its own name
Header ==
    [filename |-> "filename", rectime |-> "rectime", time |-> "time",
     origts |-> "origts", live_position_x |-> "live_position_x",
     live_position_y |-> "live_position_y", live_position_z |-> "live_position_z",
     live_position_e |-> "live_position_e", live_velocity |-> "live_velocity"]

\* the csv module writes None as the empty string and a number as str(number)
Cell(v) == IF v = None THEN "" ELSE ToString(v[1])

(* --------------------- PrinterMotionData ------------------------------ *)
\* A PrinterMotionData object is a record
\*   outh ("open" / "closed"), outcsv (the lines written so far),
\*   filename, print_state, time_offset.
\* What is printed to stdout and stderr (the echo of a row unless quiet, the
\* state-change notices) is not part of the state.
\* A method returns [self |-> the object afterwards, exc |-> the exception
\* it raised, or "None"].

PrinterMotionData ==
    [outh |-> "open", outcsv |-> <<Header>>,
     filename |-> None, print_state |-> None, time_offset |-> None]

\* the session state torn down together with the sink
close_Teardown(self) ==
    [self EXCEPT !.outh = "closed", !.filename = None, !.print_state = None,
                 !.time_offset = None]

\* lines 34-35
close(self) == [self EXCEPT !.outh = "closed"]

\* `self.filename or 'unknown'`: None and the empty string are both falsy
FilenameOrUnknown(self) ==
    IF self.filename = None \/ self.filename = Some("") THEN "unknown"
    ELSE self.filename[1]

\* lines 45-54: the row dict, as the csv writer renders its values; pos is
\* None or <<a 4-tuple>>, vel is None or <<a number>>
RowDict(filename, time_ns, time, origts, pos, vel) ==
    LET x == IF pos = None THEN None ELSE Some(pos[1][1])
        y == IF pos = None THEN None ELSE Some(pos[1][2])
        z == IF pos = None THEN None ELSE Some(pos[1][3])
        e == IF pos = None THEN None ELSE Some(pos[1][4])
    IN  [filename |-> filename,
         rectime |-> Cell(Some(time_ns)),
         time |-> Cell(Some(time)),
         origts |-> Cell(Some(origts)),
         live_position_x |-> Cell(x),
         live_position_y |-> Cell(y),
         live_position_z |-> Cell(z),
         live_position_e |-> Cell(e),
         live_velocity |-> Cell(vel)]

\* the row without the offset added to the timestamp
MotionRow_Unaligned(self, timestamp, data, time_ns) ==
    RowDict(FilenameOrUnknown(self), time_ns, timestamp, timestamp,
            Get(data, "live_position"), Get(data, "live_velocity"))

\* the velocity dropped whenever the position is absent
MotionRow_VelocityNeedsPosition(self, timestamp, data, time_ns) ==
    RowDict(FilenameOrUnknown(self), time_ns, timestamp + self.time_offset[1],
            timestamp, Get(data, "live_position"),
            IF "live_position" \in DOMAIN data THEN Get(data, "live_velocity")
            ELSE None)

\* lines 39-54: the row built for one sample
MotionRow(self, timestamp, data, time_ns) ==
    RowDict(FilenameOrUnknown(self), time_ns, timestamp + self.time_offset[1],
            timestamp, Get(data, "live_position"), Get(data, "live_velocity"))

\* the row put in front of the rows written before
writerow_Prepend(self, row) ==
    IF self.outh = "closed"
    THEN [self |-> self, exc |-> "ValueError"]
    ELSE [self |-> [self EXCEPT !.outcsv = <<Head(@), row>> \o Tail(@)],
          exc |-> "None"]

\* line 58: self.outcsv.writerow(row); writing to a closed file raises
writerow(self, row) ==
    IF self.outh = "closed"
    THEN [self |-> self, exc |-> "ValueError"]
    ELSE [self |-> [self EXCEPT !.outcsv = Append(@, row)], exc |-> "None"]

\* the guard of line 38 left out, an absent offset counting as 0
motion_report_Unguarded(self, timestamp, data, time_ns) ==
    writerow(self, MotionRow([self EXCEPT !.time_offset = IF @ = None THEN Some(0) ELSE @],
                             timestamp, data, time_ns))

\* the origin tested by its truth value: `if self.time_offset:`
motion_report_Truthy(self, timestamp, data, time_ns) ==
    IF self.time_offset # None /\ self.time_offset # Some(0)
    THEN writerow(self, MotionRow(self, timestamp, data, time_ns))
    ELSE [self |-> self, exc |-> "None"]

\* lines 37-60
motion_report(self, timestamp, data, time_ns) ==
    IF self.time_offset # None
    THEN writerow(self, MotionRow(self, timestamp, data, time_ns))
    ELSE [self |-> self, exc |-> "None"]

\* the change of the print state written to the sink as a row of its own
SetPrintState_Recorded(self, data) ==
    IF "state" \in DOMAIN data
    THEN [self |-> [self EXCEPT !.print_state = Some(data["state"]),
                                !.outcsv = Append(@, RowDict(data["state"], 0, 0, 0, None, None))],
          exc |-> IF self.outh = "closed" THEN "ValueError" ELSE "None"]
    ELSE [self |-> self, exc |-> "None"]

\* lines 62-67: the print state, and the flush that comes with it
SetPrintState(self, data) ==
    IF "state" \in DOMAIN data
    THEN [self |-> [self EXCEPT !.print_state = Some(data["state"])],
          exc |-> IF self.outh = "closed" THEN "ValueError" ELSE "None"]
    ELSE [self |-> self, exc |-> "None"]

\* the origin recomputed at every total_duration
print_stats_Recompute(self, timestamp, data) ==
    LET r1 == SetPrintState(self, data)
        s2 == IF "filename" \in DOMAIN data
              THEN [r1.self EXCEPT !.filename = Some(data["filename"])]
              ELSE r1.self
        s3 == IF "total_duration" \in DOMAIN data
              THEN [s2 EXCEPT !.time_offset = Some(data["total_duration"] - timestamp)]
              ELSE s2
    IN  IF r1.exc # "None" THEN r1 ELSE [self |-> s3, exc |-> "None"]

\* the filename taken with data.get('filename')
print_stats_ResetFilename(self, timestamp, data) ==
    LET r1 == SetPrintState(self, data)
        s2 == [r1.self EXCEPT !.filename = Get(data, "filename")]
        s3 == IF s2.time_offset = None /\ "total_duration" \in DOMAIN data
              THEN [s2 EXCEPT !.time_offset = Some(data["total_duration"] - timestamp)]
              ELSE s2
    IN  IF r1.exc # "None" THEN r1 ELSE [self |-> s3, exc |-> "None"]

print_stats(self, timestamp, data) ==
    LET r1 == SetPrintState(self, data)
        s2 == IF "filename" \in DOMAIN data
              THEN [r1.self EXCEPT !.filename = Some(data["filename"])]
              ELSE r1.self
        s3 == IF s2.time_offset = None /\ "total_duration" \in DOMAIN data
              THEN [s2 EXCEPT !.time_offset = Some(data["total_duration"] - timestamp)]
              ELSE s2
    IN  IF r1.exc # "None" THEN r1 ELSE [self |-> s3, exc |-> "None"]

(* ------------------------ PrinterStatus ------------------------------- *)
\* the `for k in message` loop of on_notification from entry i on; the loop
\* ends at the first exception
\* the entries routed from the last one back to the first
RECURSIVE Dispatch_Reversed(_, _, _, _, _)
Dispatch_Reversed(pmd, message, timestamp, time_ns, i) ==
    IF i > Len(message) THEN [self |-> pmd, exc |-> "None"]
    ELSE LET entry == message[Len(message) + 1 - i]
             r == CASE entry[1] = "motion_report" ->
                         motion_report(pmd, timestamp, entry[2], time_ns)
                    [] entry[1] = "print_stats" ->
                         print_stats(pmd, timestamp, entry[2])
                    [] OTHER -> [self |-> pmd, exc |-> "NotImplementedError"]
         IN  IF r.exc # "None" THEN r
             ELSE Dispatch_Reversed(r.self, message, timestamp, time_ns, i + 1)

\* every class name checked before the first entry is routed
RECURSIVE Dispatch_ValidateFirst(_, _, _, _, _)
Dispatch_ValidateFirst(pmd, message, timestamp, time_ns, i) ==
    IF i > Len(message) THEN [self |-> pmd, exc |-> "None"]
    ELSE IF \E j \in i..Len(message) :
                message[j][1] \notin {"motion_report", "print_stats"}
         THEN [self |-> pmd, exc |-> "NotImplementedError"]
         ELSE LET r == IF message[i][1] = "motion_report"
                       THEN motion_report(pmd, timestamp, message[i][2], time_ns)
                       ELSE print_stats(pmd, timestamp, message[i][2])
              IN  IF r.exc # "None" THEN r
                  ELSE Dispatch_ValidateFirst(r.self, message, timestamp, time_ns, i + 1)

RECURSIVE Dispatch(_, _, _, _, _)
Dispatch(pmd, message, timestamp, time_ns, i) ==
    IF i > Len(message) THEN [self |-> pmd, exc |-> "None"]
    ELSE LET k == message[i][1]
             r == CASE k = "motion_report" ->
                         motion_report(pmd, timestamp, message[i][2], time_ns)
                    [] k = "print_stats" ->
                         print_stats(pmd, timestamp, message[i][2])
                    [] OTHER -> [self |-> pmd, exc |-> "NotImplementedError"]
         IN  IF r.exc # "None" THEN r
             ELSE Dispatch(r.self, message, timestamp, time_ns, i + 1)

\* on_notification(method, data): for the status-update method data is
\* <<message, timestamp>>.  In the else branch the f-string of line 118 reads
\* the local `timestamp`, which is bound only in the if branch, so the
\* branch raises UnboundLocalError before it reaches the raise of line 119.
on_notification(pmd, method, data, time_ns) ==
    IF method = StatusMethod
    THEN Dispatch(pmd, data[1], data[2], time_ns, 1)
    ELSE [self |-> pmd, exc |-> "UnboundLocalError"]

\* subscribe(objects): the validation loop, then the call it would send;
\* [exc, call] where call is None when nothing is sent
\* an unknown name skipped instead of rejected
RECURSIVE SubscribeLoop_SkipUnknown(_, _, _, _)
SubscribeLoop_SkipUnknown(objects_list, objects, obj, i) ==
    IF i > Len(objects)
    THEN [exc |-> "None",
          call |-> Some([method |-> "printer.objects.subscribe", objects |-> obj])]
    ELSE SubscribeLoop_SkipUnknown(objects_list, objects,
             IF objects[i] \in objects_list THEN obj \cup {objects[i]} ELSE obj,
             i + 1)

RECURSIVE SubscribeLoop(_, _, _, _)
SubscribeLoop(objects_list, objects, obj, i) ==
    IF i > Len(objects)
    THEN [exc |-> "None",
          call |-> Some([method |-> "printer.objects.subscribe", objects |-> obj])]
    ELSE IF objects[i] \notin objects_list
         THEN [exc |-> "ValueError", call |-> None]
         ELSE SubscribeLoop(objects_list, objects, obj \cup {objects[i]}, i + 1)

subscribe(objects_list, objects) == SubscribeLoop(objects_list, objects, {}, 1)

\* cancel_subscriptions(): subscribe to the empty set
cancel_subscriptions ==
    [method |-> "printer.objects.subscribe", objects |-> {}]

(* ------------------------------ state --------------------------------- *)
VARIABLES
    pc,           \* where main() is
    main_exc,     \* the exception that ended main(), or "None"
    running,      \* ms.running
    client,       \* ms.client: "disconnected", "connected", "disconnecting"
    session,      \* ms.client.session: "open", "closed"
    calls,        \* the call_method requests sent to the remote, in order
    r,            \* the last answer of get_klipper_status, or None
    objects_list, \* ms.objects_list, None until initialize()
    pmd,          \* ms.pmd, the PrinterMotionData object
    recv,         \* the client's receive task: "receiving" or "stopped"
    last,         \* the last on_notification call: None or
                  \* <<[method, classes, exc]>>, classes being the keys of
                  \* the status-update message in iteration order
    eventtime     \* the remote timestamp of the last status update

vars == <<pc, main_exc, running, client, session, calls, r, objects_list,
          pmd, recv, last, eventtime>>

mainVars == <<pc, main_exc, running, client, session, calls, r, objects_list>>

KlippyStates == {"ready", "startup"}
Catalogues == {c \cup {"toolhead"} : c \in SUBSET {"motion_report", "print_stats"}}
HomedAxes == {"xyz", ""}
Keys == {"q", "Q", "x"}
\* the reading of time.time_ns(); one value stands for the clock
RecTimes == {1}

Init ==
    /\ pc = "start"
    /\ main_exc = "None"
    /\ running = FALSE
    /\ client = "disconnected"
    /\ session = "open"
    /\ calls = <<>>
    /\ r = None
    /\ objects_list = None
    /\ pmd = PrinterMotionData
    /\ recv = "receiving"
    /\ last = None
    /\ eventtime = 0

(* ------------------------------ main() --------------------------------- *)
\* line 189: await ms.start()
Start ==
    /\ pc = "start"
    /\ running' = TRUE
    /\ client' = "connected"
    /\ pc' = "connected"
    /\ UNCHANGED <<main_exc, session, calls, r, objects_list, pmd, recv, last, eventtime>>

\* line 192: the readiness timeout is armed
EnterTimeout ==
    /\ pc = "connected"
    /\ pc' = "wait_for_klippy"
    /\ UNCHANGED <<main_exc, running, client, session, calls, r, objects_list,
                   pmd, recv, last, eventtime>>

\* any answer taken for "ready"
WaitForKlippy_AnyStatus ==
    /\ pc = "wait_for_klippy"
    /\ \E status \in KlippyStates :
          /\ r' = Some(status)
          /\ pc' = "initialize"
    /\ UNCHANGED <<main_exc, running, client, session, calls, objects_list,
                   pmd, recv, last, eventtime>>

\* lines 121-124, 193-195: one poll of wait_for_klippy
WaitForKlippy ==
    /\ pc = "wait_for_klippy"
    /\ \E status \in KlippyStates :
          /\ r' = Some(status)
          /\ pc' = IF status = "ready" THEN "initialize" ELSE "wait_for_klippy"
    /\ UNCHANGED <<main_exc, running, client, session, calls, objects_list,
                   pmd, recv, last, eventtime>>

\* the except branch without ms.stop()
Timeout_NoStop ==
    /\ pc = "wait_for_klippy"
    /\ pc' = "abort_session_close"
    /\ UNCHANGED <<main_exc, running, client, session, calls, r, objects_list,
                   pmd, recv, last, eventtime>>

\* lines 196-198: the timeout fires inside wait_for_klippy; ms.stop() sets
\* running and starts the disconnect
Timeout ==
    /\ pc = "wait_for_klippy"
    /\ running' = FALSE
    /\ client' = "disconnecting"
    /\ pc' = "abort_stop"
    /\ UNCHANGED <<main_exc, session, calls, r, objects_list, pmd, recv, last, eventtime>>

\* line 198: ms.stop() returns
AbortStopDone ==
    /\ pc = "abort_stop"
    /\ client' = "disconnected"
    /\ pc' = "abort_session_close"
    /\ UNCHANGED <<main_exc, running, session, calls, r, objects_list, pmd, recv,
                   last, eventtime>>

\* lines 199-200: the session is closed and main() returns
AbortSessionClose ==
    /\ pc = "abort_session_close"
    /\ session' = "closed"
    /\ pc' = "done"
    /\ UNCHANGED <<main_exc, running, client, calls, r, objects_list, pmd, recv,
                   last, eventtime>>

\* lines 130-131, 202: initialize() queries the catalogue
Initialize ==
    /\ pc = "initialize"
    /\ \E cat \in Catalogues : objects_list' = Some(cat)
    /\ calls' = Append(calls, [method |-> "printer.objects.list", objects |-> {}])
    /\ pc' = "get_toolhead_status"
    /\ UNCHANGED <<main_exc, running, client, session, r, pmd, recv, last, eventtime>>

\* lines 126-128, 203-205: the homing check only prints a warning
GetToolheadStatus ==
    /\ pc = "get_toolhead_status"
    /\ \E homed_axes \in HomedAxes :
          calls' = Append(calls, [method |-> "printer.objects.query",
                                  objects |-> {"toolhead"}])
    /\ pc' = "subscribe"
    /\ UNCHANGED <<main_exc, running, client, session, r, objects_list, pmd, recv,
                   last, eventtime>>

\* line 208: the classes main() asks for
Wanted == <<"motion_report", "print_stats">>

\* lines 133-141, 207-210: subscribe; a ValueError is not caught in main()
Subscribe ==
    /\ pc = "subscribe"
    /\ LET res == subscribe(objects_list[1], Wanted)
       IN  IF res.exc # "None"
           THEN /\ main_exc' = res.exc
                /\ pc' = "raised"
                /\ calls' = calls
           ELSE /\ calls' = Append(calls, res.call[1])
                /\ pc' = "readkey"
                /\ main_exc' = main_exc
    /\ UNCHANGED <<running, client, session, r, objects_list, pmd, recv, last, eventtime>>

\* lines 214-217: where the quit-poll loop goes with the key k
AfterKey(k) == IF k = "q" \/ k = "Q" THEN "cancel_subscriptions" ELSE "readkey"

\* lines 214-217: one key read by the quit-poll loop
ReadKey ==
    /\ pc = "readkey"
    /\ \E k \in Keys : pc' = AfterKey(k)
    /\ UNCHANGED <<main_exc, running, client, session, calls, r, objects_list,
                   pmd, recv, last, eventtime>>

\* the drain entered without the cancellation being sent
CancelSubscriptions_Skipped ==
    /\ pc = "cancel_subscriptions"
    /\ pc' = "sleep"
    /\ UNCHANGED <<main_exc, running, client, session, calls, r, objects_list,
                   pmd, recv, last, eventtime>>

\* lines 143-144, 219-220
CancelSubscriptions ==
    /\ pc = "cancel_subscriptions"
    /\ calls' = Append(calls, cancel_subscriptions)
    /\ pc' = "sleep"
    /\ UNCHANGED <<main_exc, running, client, session, r, objects_list, pmd, recv,
                   last, eventtime>>

\* lines 222-226: the grace interval ends; the sink is closed and ms.stop()
\* sets running and starts the disconnect, with no await in between
SleepDone ==
    /\ pc = "sleep"
    /\ pmd' = close(pmd)
    /\ running' = FALSE
    /\ client' = "disconnecting"
    /\ pc' = "stop"
    /\ UNCHANGED <<main_exc, session, calls, r, objects_list, recv, last, eventtime>>

\* a disconnect that does not complete
StopDone_Pending ==
    /\ pc = "stop"
    /\ client' = "disconnecting"
    /\ pc' = "stop"
    /\ UNCHANGED <<main_exc, running, session, calls, r, objects_list, pmd, recv,
                   last, eventtime>>

\* line 226: ms.stop() returns
StopDone ==
    /\ pc = "stop"
    /\ client' = "disconnected"
    /\ pc' = "session_close"
    /\ UNCHANGED <<main_exc, running, session, calls, r, objects_list, pmd, recv,
                   last, eventtime>>

\* line 227: the session is closed and main() returns
SessionClose ==
    /\ pc = "session_close"
    /\ session' = "closed"
    /\ pc' = "done"
    /\ UNCHANGED <<main_exc, running, client, calls, r, objects_list, pmd, recv,
                   last, eventtime>>

(* ------------------------ the receive task ----------------------------- *)
\* a non-empty subscription has been sent
SubscriptionSent ==
    \E i \in DOMAIN calls :
        calls[i].method = "printer.objects.subscribe" /\ calls[i].objects # {}

\* the client can hand a message to on_notification
Receiving ==
    /\ client \in {"connected", "disconnecting"}
    /\ recv = "receiving"
    /\ pc \notin {"raised", "done"}

\* the effect of one on_notification call on the shared state
Notified(method, data, time_ns) ==
    LET res == on_notification(pmd, method, data, time_ns)
        classes == IF method = StatusMethod
                   THEN [i \in DOMAIN data[1] |-> data[1][i][1]]
                   ELSE <<>>
    IN  /\ pmd' = res.self
        /\ last' = Some([method |-> method, classes |-> classes, exc |-> res.exc])
        /\ IF res.exc = "None" THEN recv' = recv
           ELSE recv' \in {"receiving", "stopped"}

\* lines 101-116: a status update arrives
OnStatusUpdate ==
    /\ Receiving
    /\ SubscriptionSent
    /\ \E timestamp \in (eventtime + 1)..MaxTs, message \in Messages, t \in RecTimes :
          /\ Notified(StatusMethod, <<message, timestamp>>, t)
          /\ eventtime' = timestamp
    /\ UNCHANGED mainVars

\* lines 101-105, 117-119: a notification with another method arrives
OnOtherNotification ==
    /\ Receiving
    /\ \E method \in OtherMethods, data \in OtherPayloads, t \in RecTimes :
          Notified(method, data, t)
    /\ UNCHANGED <<eventtime>>
    /\ UNCHANGED mainVars

Next ==
    \/ Start
    \/ EnterTimeout
    \/ WaitForKlippy
    \/ Timeout
    \/ AbortStopDone
    \/ AbortSessionClose
    \/ Initialize
    \/ GetToolheadStatus
    \/ Subscribe
    \/ ReadKey
    \/ CancelSubscriptions
    \/ SleepDone
    \/ StopDone
    \/ SessionClose
    \/ OnStatusUpdate
    \/ OnOtherNotification

Spec == Init /\ [][Next]_vars

\* lines 219-227: once q was read main() is not waiting for the user any
\* more; each await that follows returns (the cancel request is answered,
\* the sleep of two seconds ends, the disconnect and the close of the
\* session complete), so these steps are taken when they stay enabled.  The
\* key read and the notifications are under no fairness: the user may never
\* quit, and the remote may send anything or nothing.
Fairness ==
    /\ WF_vars(CancelSubscriptions)
    /\ WF_vars(SleepDone)
    /\ WF_vars(StopDone)
    /\ WF_vars(SessionClose)

FairSpec == Spec /\ Fairness

(* ------------------------------ claims --------------------------------- *)
\* the data rows of the sink, the header row left out
Rows == Tail(pmd.outcsv)

\* the timestamps the next status update can carry: none when no status
\* update can be delivered
NextTimestamps ==
    IF Receiving /\ SubscriptionSent THEN (eventtime + 1)..MaxTs ELSE {}

\* the last line of an object's sink
LastRow(self) == self.outcsv[Len(self.outcsv)]

\* the last on_notification call was a status update carrying class k
LastCarried(k) ==
    /\ last # None
    /\ last[1].method = StatusMethod
    /\ \E i \in DOMAIN last[1].classes : last[1].classes[i] = k

\* C1 (no emission before origin), first part: while time_offset is absent
\* the sink holds no data row.
C1_NoRowWhileAbsent == pmd.time_offset = None => Rows = <<>>

\* C1, second part: while time_offset is absent, motion_report for any
\* status update that can arrive next returns normally and leaves the whole
\* object as it was: the sample is neither written nor kept anywhere.
C1_SampleDiscarded ==
    pmd.time_offset = None =>
        \A ts \in NextTimestamps, data \in MotionReportData, t \in RecTimes :
            motion_report(pmd, ts, data, t) = [self |-> pmd, exc |-> "None"]

\* C1, third part: a step that changes the data rows appends exactly one row
\* to them, and that row belongs to the status update handled in this very
\* step (it carries motion_report, and the row's origts is its timestamp):
\* no row is ever written for an earlier sample.
C1_RowIsOfThisEvent ==
    Rows' # Rows =>
        /\ Len(Rows') = Len(Rows) + 1
        /\ SubSeq(Rows', 1, Len(Rows)) = Rows
        /\ eventtime' > eventtime
        /\ Rows'[Len(Rows')].origts = ToString(eventtime')
        /\ LastCarried("motion_report")'

\* C1: no row is written while time_offset is absent; a motion report
\* handled before the origin is dropped, and it is not written later either.
C1_NoEmissionBeforeOrigin ==
    [](C1_NoRowWhileAbsent /\ C1_SampleDiscarded) /\ [][C1_RowIsOfThisEvent]_vars

\* C1 witness: a status update carrying motion_report and then print_stats
\* has been handled; the origin is established by it, and the sample that
\* came before the origin is not in the sink.
C1_Witness ==
    /\ last # None
    /\ last[1].classes = <<"motion_report", "print_stats">>
    /\ last[1].exc = "None"
    /\ pmd.time_offset # None
    /\ eventtime = 1
    /\ Rows = <<>>

\* C2 (origin freezes once), on the function: with the origin set,
\* print_stats leaves time_offset as it is whatever the event carries; with
\* the origin absent it stays absent unless the event carries
\* total_duration, and (the sink being open) an event that carries
\* total_duration sets it.
C2_PrintStatsKeepsOrigin ==
    \A ts \in NextTimestamps, data \in PrintStatsData :
        LET o == print_stats(pmd, ts, data).self.time_offset
        IN  IF pmd.time_offset # None THEN o = pmd.time_offset
            ELSE IF "total_duration" \notin DOMAIN data THEN o = None
            ELSE pmd.outh = "open" => o # None

\* C2, on the run: once time_offset has a value no step changes it (so it
\* never returns to absent and is set at most once).
C2_Frozen == pmd.time_offset # None => pmd'.time_offset = pmd.time_offset

\* C2: time_offset goes from absent to a value at most once, at an event
\* carrying total_duration, and no later print_stats event changes it.
C2_OriginFreezesOnce == []C2_PrintStatsKeepsOrigin /\ [][C2_Frozen]_vars

\* C2 witness: the origin 1 was set at timestamp 1 (total_duration 2; no
\* later timestamp gives 1), and a status update carrying print_stats has
\* been handled at timestamp 2 since.
C2_Witness ==
    /\ eventtime = 2
    /\ LastCarried("print_stats")
    /\ last[1].exc = "None"
    /\ pmd.time_offset = Some(1)

\* C3 (alignment arithmetic), the origin: with the origin absent and the
\* sink open, print_stats for an event carrying total_duration stores
\* total_duration - timestamp.
C3_OriginComputed ==
    pmd.outh = "open" /\ pmd.time_offset = None =>
        \A ts \in NextTimestamps, data \in PrintStatsData :
            "total_duration" \in DOMAIN data =>
                print_stats(pmd, ts, data).self.time_offset
                    = Some(data["total_duration"] - ts)

\* C3, the row: with the origin set and the sink open, the row motion_report
\* writes for timestamp ts has origts = ts and time = ts + time_offset.
C3_RowAligned ==
    pmd.outh = "open" /\ pmd.time_offset # None =>
        \A ts \in NextTimestamps, data \in MotionReportData, t \in RecTimes :
            LET res == motion_report(pmd, ts, data, t)
            IN  /\ Len(res.self.outcsv) = Len(pmd.outcsv) + 1
                /\ LastRow(res.self).origts = ToString(ts)
                /\ LastRow(res.self).time = ToString(ts + pmd.time_offset[1])

\* C3, the sink: every data row in the sink has time = origts + time_offset.
C3_SinkAligned ==
    \A i \in DOMAIN Rows :
        \E ts \in Timestamps :
            /\ Rows[i].origts = ToString(ts)
            /\ Rows[i].time = ToString(ts + pmd.time_offset[1])

\* C3, the example: time_offset = 100 and timestamp 5 give time 105, origts 5.
C3_Example ==
    LET self == [PrinterMotionData EXCEPT !.time_offset = Some(100)]
        row == LastRow(motion_report(self, 5, EmptyDict, 1).self)
    IN  row.time = "105" /\ row.origts = "5"

\* C3: the origin is total_duration minus the timestamp of the event that
\* establishes it, and every row has origts = t and time = t + time_offset.
C3_AlignmentArithmetic ==
    C3_OriginComputed /\ C3_RowAligned /\ C3_SinkAligned /\ C3_Example

\* C3 witness: a row written at timestamp 2 under the origin -1
\* (total_duration 1 at timestamp 2): origts 2, time 1.
C3_Witness ==
    /\ pmd.time_offset = Some(0 - 1)
    /\ Rows # <<>>
    /\ LastRow(pmd).origts = "2"
    /\ LastRow(pmd).time = "1"

\* the filename a row shows for a stored filename
Shown(filename) ==
    IF filename = None \/ filename = Some("") THEN "unknown" ELSE filename[1]

\* C4 (filename stickiness): print_stats for an event without a filename
\* field leaves filename as it was, and the row motion_report writes next
\* (the sink being open and the origin set by then) shows the filename that
\* was stored before the event, or "unknown" when none was.
C4_FilenameStickiness ==
    \A ts \in NextTimestamps, data \in PrintStatsData :
        "filename" \notin DOMAIN data =>
            LET s == print_stats(pmd, ts, data).self
            IN  /\ s.filename = pmd.filename
                /\ pmd.outh = "open" /\ s.time_offset # None =>
                       \A mdata \in MotionReportData, t \in RecTimes :
                           LastRow(motion_report(s, ts, mdata, t).self).filename
                               = Shown(pmd.filename)

\* C4 witness: the filename was stored, and the last status update carried
\* print_stats and then motion_report; the row written for it shows the
\* stored filename.
C4_Witness ==
    /\ last # None
    /\ last[1].classes = <<"print_stats", "motion_report">>
    /\ eventtime = 2
    /\ pmd.filename = Some("a.gcode")
    /\ Len(Rows) = 2
    /\ Rows[1].filename = "a.gcode"
    /\ Rows[2].filename = "a.gcode"
    /\ Rows[2].origts = "2"

\* the last on_notification call raised the unhandled-class error
UnknownClassRaised ==
    /\ last # None
    /\ last[1].method = StatusMethod
    /\ last[1].exc = "NotImplementedError"

\* C5 (unknown-class rejection), as claimed: a run in which the unknown-class
\* error was raised does not complete normally, and no row is appended to
\* the sink once the error has been raised.
C5_UnknownClassAborts ==
    /\ [](UnknownClassRaised => ~(pc = "done" /\ main_exc = "None"))
    /\ [][UnknownClassRaised => Rows' = Rows]_vars

\* C6 (unknown-method rejection), as claimed: a notification with another
\* method fails with the unhandled-notification-method error, the
\* NotImplementedError of line 119.
C6_UnknownMethodError ==
    last # None /\ last[1].method # StatusMethod =>
        last[1].exc = "NotImplementedError"

\* C7 (absent-field tolerance): with the origin set and the sink open,
\* motion_report appends exactly one row; its four position columns are the
\* event's live_position, or all empty when the event has none, and its
\* velocity column is the event's live_velocity, or empty when the event
\* has none, each independently of the other.
C7_AbsentFieldTolerance ==
    pmd.outh = "open" /\ pmd.time_offset # None =>
        \A ts \in NextTimestamps, data \in MotionReportData, t \in RecTimes :
            LET res == motion_report(pmd, ts, data, t)
                row == LastRow(res.self)
            IN  /\ res.exc = "None"
                /\ Len(res.self.outcsv) = Len(pmd.outcsv) + 1
                /\ SubSeq(res.self.outcsv, 1, Len(pmd.outcsv)) = pmd.outcsv
                /\ IF "live_position" \in DOMAIN data
                   THEN /\ row.live_position_x = ToString(data["live_position"][1])
                        /\ row.live_position_y = ToString(data["live_position"][2])
                        /\ row.live_position_z = ToString(data["live_position"][3])
                        /\ row.live_position_e = ToString(data["live_position"][4])
                   ELSE /\ row.live_position_x = ""
                        /\ row.live_position_y = ""
                        /\ row.live_position_z = ""
                        /\ row.live_position_e = ""
                /\ row.live_velocity =
                       IF "live_velocity" \in DOMAIN data
                       THEN ToString(data["live_velocity"]) ELSE ""

\* C7 witness: the sink holds a row with empty position columns and a
\* velocity, and a row with the position columns and an empty velocity.
C7_Witness ==
    /\ Len(Rows) = 2
    /\ Rows[1].live_position_x = "" /\ Rows[1].live_position_e = ""
    /\ Rows[1].live_velocity = "5"
    /\ Rows[2].live_position_x = "1" /\ Rows[2].live_position_e = "4"
    /\ Rows[2].live_velocity = ""

\* the request lists subscribe is tried on: up to MaxRequest class names
MaxRequest == 3
Requests == UNION {[1..n -> ClassNames] : n \in 1..MaxRequest}

\* the printer.objects.subscribe requests sent so far
SubscribeCalls ==
    {i \in DOMAIN calls : calls[i].method = "printer.objects.subscribe"}

\* C8 (subscription validation), on the function: against the queried
\* catalogue, a request list with an unknown name at any position gives a
\* ValueError and no call; a list of known names gives one call for exactly
\* those names.
C8_SubscribeValidates ==
    pc = "subscribe" =>
        \A objects \in Requests :
            LET res == subscribe(objects_list[1], objects)
            IN  IF \E i \in DOMAIN objects : objects[i] \notin objects_list[1]
                THEN res.exc = "ValueError" /\ res.call = None
                ELSE /\ res.exc = "None"
                     /\ res.call =
                          Some([method |-> "printer.objects.subscribe",
                                objects |-> {objects[i] : i \in DOMAIN objects}])

\* C8, on the run: when main() ended with the ValueError no subscribe request
\* was sent, and a subscribe request that was sent means that every wanted
\* class is in the catalogue and that the first request names all of them.
C8_NoPartialSubscription ==
    /\ main_exc = "ValueError" =>
          /\ SubscribeCalls = {}
          /\ \E i \in DOMAIN Wanted : Wanted[i] \notin objects_list[1]
    /\ SubscribeCalls # {} =>
          /\ \A i \in DOMAIN Wanted : Wanted[i] \in objects_list[1]
          /\ \A i \in SubscribeCalls :
                (\A j \in SubscribeCalls : i <= j) =>
                    calls[i].objects = {Wanted[k] : k \in DOMAIN Wanted}

\* C8: subscribe with a class name that is not in objects_list fails before
\* any printer.objects.subscribe request is sent, wherever the name stands.
C8_SubscriptionValidation == C8_SubscribeValidates /\ C8_NoPartialSubscription

\* C8 witness: the catalogue holds the first wanted class and lacks the
\* second; main() ended with the ValueError and only the two queries of the
\* startup were sent.
C8_Witness ==
    /\ main_exc = "ValueError"
    /\ objects_list = Some({"motion_report", "toolhead"})
    /\ Len(calls) = 2

\* the lifecycle state of the session controller; a run ended by the
\* ValueError of subscribe has stopped in AwaitingReady, and the abort path
\* of the readiness timeout is the way from AwaitingReady to Closed
State ==
    CASE pc = "start" -> "Disconnected"
      [] pc = "connected" -> "Connected"
      [] pc \in {"wait_for_klippy", "initialize", "get_toolhead_status",
                 "subscribe", "raised", "abort_stop", "abort_session_close"}
            -> "AwaitingReady"
      [] pc \in {"readkey", "cancel_subscriptions"} -> "Subscribed"
      [] pc \in {"sleep", "stop", "session_close"} -> "Draining"
      [] pc = "done" -> "Closed"

\* the moves the lifecycle allows
LifecycleStep(a, b) ==
    \/ a = b
    \/ a = "Disconnected" /\ b = "Connected"
    \/ a = "Connected" /\ b = "AwaitingReady"
    \/ a = "AwaitingReady" /\ b = "Subscribed"
    \/ a = "Subscribed" /\ b = "Draining"
    \/ a = "Draining" /\ b = "Closed"
    \/ a = "AwaitingReady" /\ b = "Closed"

\* C9 (lifecycle order), the moves: every step keeps the state or moves it
\* one place forward; the shortcut from AwaitingReady to Closed is taken
\* only on the abort path of the timeout, with no ready answer; and Closed
\* is never left.
C9_Forward ==
    /\ LifecycleStep(State, State')
    /\ State = "AwaitingReady" /\ State' = "Closed" =>
          pc = "abort_session_close" /\ r # Some("ready")
    /\ State = "Closed" => State' = "Closed" /\ UNCHANGED vars

\* C9, the subscription: a subscribe request is sent only after the remote
\* answered ready and after the catalogue was queried.
C9_SubscribeAfterReady ==
    \A i \in SubscribeCalls :
        /\ r = Some("ready")
        /\ objects_list # None
        /\ \E j \in 1..(i - 1) : calls[j].method = "printer.objects.list"

\* C9: the state moves forward along Disconnected, Connected, AwaitingReady,
\* Subscribed, Draining, Closed (or from AwaitingReady to Closed on the
\* timeout); no subscription before ready and the catalogue; Closed is
\* entered once and never left.
C9_LifecycleOrder == []C9_SubscribeAfterReady /\ [][C9_Forward]_vars

\* C9 witness: a run that went through every state and is Closed.
C9_Witness ==
    /\ State = "Closed"
    /\ Len(calls) = 4
    /\ calls[3].objects = {"motion_report", "print_stats"}
    /\ calls[4].objects = {}

\* main() is on the abort path of the readiness timeout, or returned by it
AbortPath ==
    \/ pc \in {"abort_stop", "abort_session_close"}
    \/ pc = "done" /\ r # Some("ready")

\* C10 (startup readiness timeout), the states of the abort path: nothing
\* was asked of the remote (no catalogue query, no subscription), the
\* catalogue is unset, no data row is in the sink, the disconnect has been
\* started, and when main() has returned the channel is disconnected and
\* the session closed.
C10_CleanAbort ==
    AbortPath =>
        /\ calls = <<>>
        /\ objects_list = None
        /\ Rows = <<>>
        /\ ~running
        /\ client \in {"disconnecting", "disconnected"}
        /\ pc \in {"abort_session_close", "done"} => client = "disconnected"
        /\ pc = "done" => session = "closed"

\* C10, the steps: main() leaves the readiness wait without a ready answer
\* only onto the abort path, and the abort path is never left (the
\* catalogue query, the subscription and the quit-poll loop are never
\* reached from it).
C10_AbortOnly ==
    /\ pc = "wait_for_klippy" /\ pc' # "wait_for_klippy" /\ r' # Some("ready")
          => AbortPath'
    /\ AbortPath => AbortPath'

\* C10: when the readiness wait times out the run ends on the abort path:
\* channel disconnected, no catalogue query, no subscription, no quit-poll
\* loop, no data row.
C10_ReadinessTimeout == []C10_CleanAbort /\ [][C10_AbortOnly]_vars

\* C10 witness: main() has returned by the abort path after an answer other
\* than ready.
C10_Witness ==
    /\ pc = "done"
    /\ r = Some("startup")
    /\ client = "disconnected"
    /\ session = "closed"

\* the last on_notification call failed with one of the two schema errors:
\* the unknown class (NotImplementedError, line 116) or the unknown method
\* (the exception the else branch of lines 117-119 raises)
SchemaErrorRaised ==
    /\ last # None
    /\ last[1].exc \in {"NotImplementedError", "UnboundLocalError"}

\* C11 (fatal schema errors end the session and release the channel), as
\* claimed: once the dispatcher has failed with a schema error, a run that
\* has ended has ended with that error at the top and with the channel
\* disconnected; it has not completed normally.
C11_SchemaErrorEndsRun ==
    SchemaErrorRaised /\ pc \in {"done", "raised"} =>
        /\ main_exc = last[1].exc
        /\ client = "disconnected"

\* the cancellations issued so far: the requests that subscribe to the empty
\* class set
CancelCalls == {i \in DOMAIN calls : calls[i] = cancel_subscriptions}

\* C12 (shutdown ordering), the states: the cancellation is issued at most
\* once, and it has been issued exactly when main() is past the quit signal's
\* cancel step; it is the last request sent and follows the subscription;
\* the channel stays connected and the sink open until the grace interval
\* has elapsed; a closed sink means the cancellation was issued; and, apart
\* from the abort path of the readiness timeout, a channel that is being or
\* has been disconnected means the sink was closed.
C12_ShutdownStates ==
    /\ Cardinality(CancelCalls) <= 1
    /\ CancelCalls # {} <=>
          \/ pc \in {"sleep", "stop", "session_close"}
          \/ pc = "done" /\ r = Some("ready")
    /\ CancelCalls # {} =>
          /\ CancelCalls = {Len(calls)}
          /\ \E i \in SubscribeCalls : i < Len(calls) /\ calls[i].objects # {}
    /\ pc \in {"readkey", "cancel_subscriptions", "sleep"} =>
          client = "connected" /\ pmd.outh = "open"
    /\ pmd.outh = "closed" =>
          CancelCalls # {} /\ pc \in {"stop", "session_close", "done"}
    /\ pc # "start" /\ ~AbortPath /\ client # "connected" => pmd.outh = "closed"

\* C12, the steps: the cancellation is issued from the quit signal's cancel
\* step with the channel connected and the sink open, and leaves both so; the
\* sink is closed only when the grace interval ends, after the cancellation,
\* and is never reopened; the disconnect that follows the quit signal starts
\* no earlier than the close of the sink and completes after it; a
\* disconnected channel is not connected again.
C12_ShutdownSteps ==
    /\ calls' # calls /\ CancelCalls' # CancelCalls =>
          /\ pc = "cancel_subscriptions" /\ pc' = "sleep"
          /\ client = "connected" /\ client' = "connected"
          /\ pmd.outh = "open" /\ pmd'.outh = "open"
    /\ pmd'.outh # pmd.outh =>
          /\ pmd.outh = "open"
          /\ pc = "sleep" /\ pc' = "stop"
          /\ CancelCalls # {}
          /\ client = "connected"
    /\ client = "connected" /\ client' # "connected" /\ ~AbortPath' =>
          pmd'.outh = "closed" /\ client' = "disconnecting"
    /\ client # "disconnected" /\ client' = "disconnected" /\ ~AbortPath' =>
          pmd.outh = "closed" /\ pc = "stop"
    /\ pc # "start" /\ client = "disconnected" => client' = "disconnected"

\* C12: after the quit signal the subscription is cancelled (the empty class
\* set is subscribed to) with the channel connected, then the grace interval
\* elapses, then the sink is closed, then the channel is disconnected, each
\* once; neither the close nor this disconnect comes before the cancellation.
C12_ShutdownOrdering == []C12_ShutdownStates /\ [][C12_ShutdownSteps]_vars

\* C12 witness: main() returned by the quit path; the cancellation is the
\* fourth and last request, the sink is closed with a row in it, and the
\* channel is disconnected.
C12_Witness ==
    /\ pc = "done"
    /\ main_exc = "None"
    /\ CancelCalls = {4}
    /\ pmd.outh = "closed"
    /\ Rows # <<>>
    /\ client = "disconnected"
    /\ session = "closed"

\* the remote timestamp an origts cell was written for
TsOf(cell) == CHOOSE ts \in Timestamps : ToString(ts) = cell

\* C13 (atomic in-order dispatch), the steps: a step of main() (the quit
\* poll, the cancellation, the close, the disconnect) handles no
\* notification and changes the recorder by nothing but the close; a step
\* that handles a notification changes nothing of main(); status updates
\* are taken in the order of their timestamps; and the one step has gone
\* through the whole bundle: it ends without error only if no entry is of
\* an unknown class, it ends with the unknown-class error only if one is,
\* and when it ends without error with the sink open, the sample of its
\* motion_report entry is in the sink if the origin was set before the
\* bundle or by a print_stats entry standing before it.
C13_WholeNotifications ==
    /\ mainVars' # mainVars =>
          /\ last' = last /\ eventtime' = eventtime
          /\ pmd' \in {pmd, close(pmd)}
    /\ last' # last \/ eventtime' # eventtime \/ pmd' \notin {pmd, close(pmd)} =>
          /\ UNCHANGED mainVars
          /\ last' # None
          /\ IF last'[1].method = StatusMethod
             THEN /\ eventtime' > eventtime
                  /\ last'[1].exc = "None" => ~LastCarried("toolhead")'
                  /\ last'[1].exc = "NotImplementedError" => LastCarried("toolhead")'
                  /\ /\ last'[1].exc = "None"
                     /\ pmd.outh = "open"
                     /\ LastCarried("motion_report")'
                     /\ \/ pmd.time_offset # None
                        \/ pmd'.time_offset # None /\ last'[1].classes[1] = "print_stats"
                     => /\ Len(Rows') = Len(Rows) + 1
                        /\ Rows'[Len(Rows')].origts = ToString(eventtime')
             ELSE pmd' = pmd /\ eventtime' = eventtime

\* C13, the sink: every row was written for a status update that has
\* arrived, and the rows stand in the order of arrival of their events
\* (the remote timestamps order the arrivals).
C13_RowsInArrivalOrder ==
    /\ \A i \in DOMAIN Rows :
          \E ts \in 1..eventtime : Rows[i].origts = ToString(ts)
    /\ \A i, j \in DOMAIN Rows :
          i < j => TsOf(Rows[i].origts) < TsOf(Rows[j].origts)

\* C13: notifications are handled one at a time and whole, no step of the
\* quit poll or of the shutdown falls inside the handling of a bundle, and
\* the rows are in the sink in the arrival order of their events.
C13_AtomicInOrderDispatch ==
    []C13_RowsInArrivalOrder /\ [][C13_WholeNotifications]_vars

\* C13 witness: the cancellation has been issued and the grace interval is
\* running; two bundles of two entries each were handled whole, the second
\* one after the first, and their rows are in the sink in that order.
C13_Witness ==
    /\ pc = "sleep"
    /\ last # None
    /\ Len(last[1].classes) = 2
    /\ last[1].exc = "None"
    /\ Len(Rows) = 2
    /\ Rows[1].origts = "1"
    /\ Rows[2].origts = "2"

\* C14 (sink is append-only, one row per recorded sample), on the functions:
\* for any status update that can arrive next, print_stats leaves the lines
\* of the sink as they are whatever it carries (a print state included), and
\* motion_report appends exactly one line after the lines already there when
\* the origin is set (the sink being open) and leaves them as they are
\* otherwise.
C14_HandlersAppendOnly ==
    \A ts \in NextTimestamps :
        /\ \A data \in PrintStatsData :
              print_stats(pmd, ts, data).self.outcsv = pmd.outcsv
        /\ \A data \in MotionReportData, t \in RecTimes :
              LET o == motion_report(pmd, ts, data, t).self.outcsv
              IN  IF pmd.time_offset # None /\ pmd.outh = "open"
                  THEN /\ Len(o) = Len(pmd.outcsv) + 1
                       /\ SubSeq(o, 1, Len(pmd.outcsv)) = pmd.outcsv
                  ELSE o = pmd.outcsv

\* C14, the steps: the header line stays first; a step leaves the rows as
\* they are or appends one row after them, and it appends only when it
\* handles a status update that carries motion_report, with the origin set
\* afterwards and the sink open; a status update carrying motion_report that
\* is handled without error with the origin set and the sink open appends
\* one row.
C14_SinkStep ==
    /\ Head(pmd'.outcsv) = Header
    /\ \/ Rows' = Rows
       \/ /\ Len(Rows') = Len(Rows) + 1
          /\ SubSeq(Rows', 1, Len(Rows)) = Rows
          /\ eventtime' > eventtime
          /\ LastCarried("motion_report")'
          /\ pmd'.time_offset # None
          /\ pmd.outh = "open"
    /\ /\ eventtime' > eventtime
       /\ LastCarried("motion_report")'
       /\ last'[1].exc = "None"
       /\ pmd.time_offset # None
       /\ pmd.outh = "open"
       => Len(Rows') = Len(Rows) + 1

\* C14: the rows of the sink change only by motion_report appending one row
\* at the end when the origin is established; written rows are never
\* modified, removed or reordered; print_stats events and discarded samples
\* leave the rows unchanged.
C14_SinkAppendOnly == []C14_HandlersAppendOnly /\ [][C14_SinkStep]_vars

\* C14 witness: a row was written at timestamp 1; the status update of
\* timestamp 2 carried print_stats alone, a print state is stored, and the
\* sink still holds that one row.
C14_Witness ==
    /\ eventtime = 2
    /\ last # None
    /\ last[1].classes = <<"print_stats">>
    /\ last[1].exc = "None"
    /\ pmd.print_state = Some("printing")
    /\ Len(Rows) = 1
    /\ Rows[1].origts = "1"

\* the session state of a recorder: filename, print_state, time_offset
Session(self) == <<self.filename, self.print_state, self.time_offset>>

\* C15 (session state has a single writer), on the functions: for any status
\* update that can arrive next, motion_report leaves the three fields as
\* they are, recorded or discarded; so does close; and print_stats leaves as
\* it is every field whose key the event does not carry (time_offset also
\* when it is set already), and, the sink being open, sets the field of
\* every key it carries.
C15_HandlersFrame ==
    /\ Session(close(pmd)) = Session(pmd)
    /\ \A ts \in NextTimestamps :
          /\ \A data \in MotionReportData, t \in RecTimes :
                Session(motion_report(pmd, ts, data, t).self) = Session(pmd)
          /\ \A data \in PrintStatsData :
                LET s == print_stats(pmd, ts, data).self
                IN  /\ "state" \notin DOMAIN data => s.print_state = pmd.print_state
                    /\ "filename" \notin DOMAIN data => s.filename = pmd.filename
                    /\ "total_duration" \notin DOMAIN data \/ pmd.time_offset # None
                          => s.time_offset = pmd.time_offset
                    /\ pmd.outh = "open" =>
                          /\ "state" \in DOMAIN data =>
                                s.print_state = Some(data["state"])
                          /\ "filename" \in DOMAIN data =>
                                s.filename = Some(data["filename"])
                          /\ "total_duration" \in DOMAIN data =>
                                s.time_offset # None

\* C15, the steps: a step that changes filename, print_state or time_offset
\* handles a status update that carries print_stats and is no step of
\* main(); the quit poll, the lifecycle steps and a status update without
\* print_stats leave the three fields as they are.
C15_WriterStep ==
    Session(pmd)' # Session(pmd) =>
        /\ UNCHANGED mainVars
        /\ eventtime' > eventtime
        /\ LastCarried("print_stats")'

\* C15: filename, print_state and time_offset are changed only by print_stats
\* events, which change only the fields whose keys they carry; motion
\* reports, the quit poll and the lifecycle steps leave them unchanged.
C15_SingleWriter == []C15_HandlersFrame /\ [][C15_WriterStep]_vars

\* C15 witness: main() has returned after the shutdown; the three fields
\* hold what print_stats events stored, and the last status update carried
\* motion_report alone.
C15_Witness ==
    /\ pc = "done"
    /\ pmd.outh = "closed"
    /\ pmd.filename = Some("a.gcode")
    /\ pmd.print_state = Some("printing")
    /\ pmd.time_offset = Some(1)
    /\ last # None
    /\ last[1].classes = <<"motion_report">>

\* C16 (termination after quit), the keys: q and Q both leave the quit-poll
\* loop for the cancellation, and any other key stays in the loop.
C16_QuitKeys ==
    \A k \in Keys :
        AfterKey(k) = IF k \in {"q", "Q"} THEN "cancel_subscriptions" ELSE "readkey"

\* C16, the steps: the quit-poll loop is left only for the cancellation (the
\* run stays in Subscribed until the quit signal), and notifications handled
\* meanwhile, failing or not, do not move main().
C16_PollStep ==
    /\ pc = "readkey" => pc' \in {"readkey", "cancel_subscriptions"}
    /\ pc = "readkey" /\ pc' = "readkey" => State' = "Subscribed"
    /\ last' # last => pc' = pc

\* main() has returned by the quit path with everything released
ClosedClean ==
    /\ pc = "done"
    /\ main_exc = "None"
    /\ pmd.outh = "closed"
    /\ client = "disconnected"
    /\ session = "closed"
    /\ ~running

\* C16: once the quit signal was read in Subscribed, the run reaches Closed
\* with the sink closed and the channel disconnected, whatever notifications
\* are handled during the drain; any other key leaves the run in Subscribed.
C16_TerminationAfterQuit ==
    /\ []C16_QuitKeys
    /\ [][C16_PollStep]_vars
    /\ (pc = "cancel_subscriptions" ~> ClosedClean)

\* C16 witness: the run is Closed after the quit signal, and a notification
\* failed on the closed sink during the drain.
C16_Witness ==
    /\ ClosedClean
    /\ last # None
    /\ last[1].exc = "ValueError"

\* C17 (no sink access after close), as claimed: no on_notification call
\* reaches the sink once it is closed; a notification handled between the
\* close of the sink and the end of the disconnect returns normally, and
\* none fails with the ValueError that a write to or a flush of a closed
\* file raises.
C17_NoSinkAccessAfterClose ==
    /\ [](last # None => last[1].exc # "ValueError")
    /\ [][pmd.outh = "closed" /\ eventtime' > eventtime => last'[1].exc = "None"]_vars

\* C18 (intra-bundle ordering), on the function: with the origin absent and
\* the sink open, take any status update that can arrive next whose
\* print_stats entry carries total_duration.  With print_stats first the
\* origin is total_duration minus the bundle's timestamp and one row is
\* appended, built under that origin with the same timestamp (so its time is
\* total_duration); with motion_report first nothing is appended and the
\* recorder ends as print_stats alone leaves it.
C18_OrderDecides ==
    pmd.outh = "open" /\ pmd.time_offset = None =>
        \A ts \in NextTimestamps, m \in MotionReportData, p \in PrintStatsData,
           t \in RecTimes :
            "total_duration" \in DOMAIN p =>
                LET alone == print_stats(pmd, ts, p).self
                    pfirst == Dispatch(pmd, Message(<<"print_stats", "motion_report">>, m, p),
                                       ts, t, 1)
                    mfirst == Dispatch(pmd, Message(<<"motion_report", "print_stats">>, m, p),
                                       ts, t, 1)
                IN  /\ pfirst.exc = "None"
                    /\ pfirst.self.time_offset = Some(p["total_duration"] - ts)
                    /\ pfirst.self.outcsv = Append(pmd.outcsv, MotionRow(alone, ts, m, t))
                    /\ LastRow(pfirst.self).origts = ToString(ts)
                    /\ LastRow(pfirst.self).time = ToString(p["total_duration"])
                    /\ mfirst.exc = "None"
                    /\ mfirst.self = alone
                    /\ mfirst.self.outcsv = pmd.outcsv

\* C18, the steps: a status update that establishes the origin appends a row
\* exactly when it carries motion_report after print_stats, and then the row
\* has the update's timestamp and the new origin.
C18_OriginStep ==
    pmd.time_offset = None /\ pmd'.time_offset # None /\ last'[1].exc = "None" =>
        IF last'[1].classes = <<"print_stats", "motion_report">>
        THEN /\ Len(Rows') = Len(Rows) + 1
             /\ Rows'[Len(Rows')].origts = ToString(eventtime')
             /\ Rows'[Len(Rows')].time = ToString(eventtime' + pmd'.time_offset[1])
        ELSE Rows' = Rows

\* C18: the entries of a bundle are routed in the mapping's iteration order
\* with the bundle's one timestamp: the sample of the bundle that
\* establishes the origin is recorded when print_stats comes first and
\* discarded when motion_report comes first.
C18_IntraBundleOrdering == []C18_OrderDecides /\ [][C18_OriginStep]_vars

\* C18 witness: the first status update carried print_stats (total_duration
\* 2) and then motion_report; its sample is in the sink under origin 1.
C18_Witness ==
    /\ eventtime = 1
    /\ last # None
    /\ last[1].classes = <<"print_stats", "motion_report">>
    /\ last[1].exc = "None"
    /\ pmd.time_offset = Some(1)
    /\ Len(Rows) = 1
    /\ Rows[1].origts = "1"
    /\ Rows[1].time = "2"

\* the handler on_notification calls for a known class
Route(self, k, timestamp, data, time_ns) ==
    IF k = "motion_report" THEN motion_report(self, timestamp, data, time_ns)
    ELSE print_stats(self, timestamp, data)

\* C19 (no rollback on unknown class), on the function: for any status
\* update that can arrive next with a known class k and the unknown class
\* toolhead, in the order k, toolhead the handler of k has acted in full
\* (the recorder is as that handler alone leaves it: row appended, fields
\* stored) and the error is raised after it, unless the handler itself
\* failed; in the order toolhead, k the error is raised with the recorder
\* untouched, the entry of k not routed.
C19_PrefixOnly ==
    \A ts \in NextTimestamps, k \in {"motion_report", "print_stats"}, t \in RecTimes :
        \A data \in PayloadsOf(k) :
            LET alone == Route(pmd, k, ts, data, t)
                before == Dispatch(pmd, <<(<<k, data>>), (<<"toolhead", EmptyDict>>)>>,
                                   ts, t, 1)
                after == Dispatch(pmd, <<(<<"toolhead", EmptyDict>>), (<<k, data>>)>>,
                                  ts, t, 1)
            IN  /\ before.self = alone.self
                /\ before.exc = IF alone.exc = "None" THEN "NotImplementedError"
                                ELSE alone.exc
                /\ after = [self |-> pmd, exc |-> "NotImplementedError"]

\* C19, the steps: a step in which the unknown-class error is raised removes
\* or alters no line of the sink, and changes the recorder only when a known
\* class stood before the unknown one; what the recorder holds after the
\* error stays until a later notification is handled.
C19_ErrorStep ==
    /\ eventtime' > eventtime /\ last'[1].exc = "NotImplementedError" =>
          /\ SubSeq(pmd'.outcsv, 1, Len(pmd.outcsv)) = pmd.outcsv
          /\ last'[1].classes[1] = "toolhead" => pmd' = pmd
    /\ UnknownClassRaised /\ last' = last /\ eventtime' = eventtime =>
          pmd' \in {pmd, close(pmd)}

\* C19: when a bundle fails with the unknown-class error, the entries routed
\* before the offending class have taken full effect and stay in effect, and
\* the entries after it are never routed.
C19_NoRollback == []C19_PrefixOnly /\ [][C19_ErrorStep]_vars

\* C19 witness: the first status update carried print_stats and then
\* toolhead; the error was raised, and the filename and the origin its
\* print_stats entry carried are stored.
C19_Witness ==
    /\ eventtime = 1
    /\ UnknownClassRaised
    /\ last[1].classes = <<"print_stats", "toolhead">>
    /\ pmd.filename = Some("a.gcode")
    /\ pmd.time_offset = Some(1)

\* C20 (origin presence is tested by absence, not by value), the origin 0:
\* with the origin absent and the sink open, print_stats for an event whose
\* total_duration equals its timestamp stores the offset 0; and in a state
\* whose offset is 0 the origin counts as established: print_stats keeps it
\* at 0 whatever total_duration a later event carries, and motion_report
\* (the sink being open) appends a row whose time equals its origts.
C20_ZeroIsAnOrigin ==
    \A ts \in NextTimestamps :
        /\ pmd.outh = "open" /\ pmd.time_offset = None =>
              \A p \in PrintStatsData :
                  "total_duration" \in DOMAIN p /\ p["total_duration"] = ts =>
                      print_stats(pmd, ts, p).self.time_offset = Some(0)
        /\ pmd.time_offset = Some(0) =>
              /\ \A p \in PrintStatsData :
                    print_stats(pmd, ts, p).self.time_offset = Some(0)
              /\ pmd.outh = "open" =>
                    \A m \in MotionReportData, t \in RecTimes :
                        LET res == motion_report(pmd, ts, m, t)
                        IN  /\ Len(res.self.outcsv) = Len(pmd.outcsv) + 1
                            /\ LastRow(res.self).origts = ToString(ts)
                            /\ LastRow(res.self).time = ToString(ts)

\* C20, the filename: a stored filename that is the empty string is written
\* to a row as unknown, as an absent one is.
C20_EmptyFilenameUnknown ==
    pmd.outh = "open" /\ pmd.time_offset # None /\ pmd.filename \in {None, Some("")} =>
        \A ts \in NextTimestamps, m \in MotionReportData, t \in RecTimes :
            LastRow(motion_report(pmd, ts, m, t).self).filename = "unknown"

\* C20, the steps: an offset of 0 is never overwritten, and a row appended
\* under it has time equal to origts.
C20_ZeroStep ==
    pmd.time_offset = Some(0) =>
        /\ pmd'.time_offset = Some(0)
        /\ Rows' # Rows =>
              /\ Len(Rows') = Len(Rows) + 1
              /\ Rows'[Len(Rows')].time = Rows'[Len(Rows')].origts

\* C20: a time_offset of 0 is an established origin (it is not overwritten,
\* and rows are recorded with time = origts), whereas a filename that is the
\* empty string is reported as unknown.
C20_PresenceByAbsence ==
    [](C20_ZeroIsAnOrigin /\ C20_EmptyFilenameUnknown) /\ [][C20_ZeroStep]_vars

\* C20 witness: the origin 0 was set at timestamp 1 (a row of that bundle has
\* time 1); the status update of timestamp 2, print_stats and then
\* motion_report, left it at 0 and its row has time 2; the filename stored
\* is the empty string and the row shows unknown.
C20_Witness ==
    /\ eventtime = 2
    /\ last # None
    /\ last[1].classes = <<"print_stats", "motion_report">>
    /\ pmd.time_offset = Some(0)
    /\ pmd.filename = Some("")
    /\ Len(Rows) = 2
    /\ Rows[1].origts = "1" /\ Rows[1].time = "1"
    /\ Rows[2].origts = "2" /\ Rows[2].time = "2"
    /\ Rows[2].filename = "unknown"

====
